---- MODULE Spec2Model ----
(***************************************************************************)
(* A model of py_agterm.AGTerm: a pseudo-terminal session with a           *)
(* background reader thread, a consumable buffer, a capped history and the *)
(* ready-wait protocol (read_until_ready).                                 *)
(*                                                                         *)
(* Bytes are their integer codes; text is a sequence of code points.       *)
(***************************************************************************)
EXTENDS Integers, Sequences, FiniteSets, TLC

\* ------------------------------------------------------------------------
\* Byte codes used by the sanitizer and the modelled terminal traffic
\* ------------------------------------------------------------------------
ESC == 27
BEL == 7
TAB == 9
LF == 10
CR == 13
SPACE == 32
REPLACEMENT == 65533

\* ------------------------------------------------------------------------
\* Bounds of the model
\* ------------------------------------------------------------------------
MaxTimeout == 1
MaxOps == 2
MaxStarts == 2
MaxChunk == 3
MaxHistoryCap == 2
MaxAuxCloses == 1
MaxSanLen == 4
MaxPayload == 2

\* ------------------------------------------------------------------------
\* Sequence helpers
\* ------------------------------------------------------------------------
Min(a, b) == IF a <= b THEN a ELSE b

Tail_n(s, n) == SubSeq(s, Len(s) - n + 1, Len(s))

From(s, i) == SubSeq(s, i, Len(s))

\* Python's `m in text` for strings
Contains(text, m) ==
    \E i \in 0..(Len(text) - Len(m)) : SubSeq(text, i + 1, i + Len(m)) = m

InRange(b, lo, hi) == lo <= b /\ b <= hi

\* ------------------------------------------------------------------------
\* ANSI_RE: length of the match of the pattern anchored at position i of s
\* (0 when the pattern does not match there).  The three alternatives are
\* tried in the order they are written in the pattern.
\* ------------------------------------------------------------------------
RECURSIVE SkipClass(_, _, _, _)
SkipClass(s, i, lo, hi) ==
    IF i <= Len(s) /\ InRange(s[i], lo, hi) THEN SkipClass(s, i + 1, lo, hi) ELSE i

\* [@-Z\\-_]
SingleCharLen(s, i) ==
    IF i + 1 <= Len(s) /\ (InRange(s[i + 1], 64, 90) \/ InRange(s[i + 1], 92, 95))
    THEN 2 ELSE 0

\* \[[0-?]*[ -/]*[@-~]
CsiLen(s, i) ==
    IF i + 1 <= Len(s) /\ s[i + 1] = 91
    THEN LET p == SkipClass(s, i + 2, 48, 63)
             q == SkipClass(s, p, 32, 47)
         IN IF q <= Len(s) /\ InRange(s[q], 64, 126) THEN q - i + 1 ELSE 0
    ELSE 0

\* first position >= j where a terminator (BEL, or ESC \) ends; 0 if none
RECURSIVE OscTermEnd(_, _)
OscTermEnd(s, j) ==
    IF j > Len(s) THEN 0
    ELSE IF s[j] = BEL THEN j
    ELSE IF s[j] = ESC /\ j + 1 <= Len(s) /\ s[j + 1] = 92 THEN j + 1
    ELSE OscTermEnd(s, j + 1)

\* \][0-9]*;[\s\S]*?(?:\x07|\x1b\\)
OscLen(s, i) ==
    IF i + 1 <= Len(s) /\ s[i + 1] = 93
    THEN LET p == SkipClass(s, i + 2, 48, 57)
         IN IF p <= Len(s) /\ s[p] = 59
            THEN LET e == OscTermEnd(s, p + 1) IN IF e = 0 THEN 0 ELSE e - i + 1
            ELSE 0
    ELSE 0

AnsiMatchLen(s, i) ==
    IF s[i] # ESC THEN 0
    ELSE IF SingleCharLen(s, i) > 0 THEN SingleCharLen(s, i)
    ELSE IF CsiLen(s, i) > 0 THEN CsiLen(s, i)
    ELSE OscLen(s, i)

\* ANSI_RE.sub(b"", data)
RECURSIVE AnsiSubFrom(_, _)
AnsiSubFrom(s, i) ==
    IF i > Len(s) THEN << >>
    ELSE LET n == AnsiMatchLen(s, i)
         IN IF n > 0 THEN AnsiSubFrom(s, i + n)
            ELSE << s[i] >> \o AnsiSubFrom(s, i + 1)

AnsiSub(s) == AnsiSubFrom(s, 1)

\* ------------------------------------------------------------------------
\* bytes.decode("utf-8", errors="replace")
\* ------------------------------------------------------------------------
IsCont(s, i, lo, hi) == i <= Len(s) /\ InRange(s[i], lo, hi)

SecondLo(b) == IF b = 224 THEN 160 ELSE IF b = 240 THEN 144 ELSE 128

SecondHi(b) == IF b = 237 THEN 159 ELSE IF b = 244 THEN 143 ELSE 191

RECURSIVE DecodeFrom(_, _)
DecodeFrom(s, i) ==
    IF i > Len(s) THEN << >>
    ELSE LET b == s[i] IN
      IF b < 128 THEN << b >> \o DecodeFrom(s, i + 1)
      ELSE IF InRange(b, 194, 223) THEN
         IF IsCont(s, i + 1, 128, 191)
         THEN << (b - 192) * 64 + (s[i + 1] - 128) >> \o DecodeFrom(s, i + 2)
         ELSE << REPLACEMENT >> \o DecodeFrom(s, i + 1)
      ELSE IF InRange(b, 224, 239) THEN
         IF ~IsCont(s, i + 1, SecondLo(b), SecondHi(b))
         THEN << REPLACEMENT >> \o DecodeFrom(s, i + 1)
         ELSE IF ~IsCont(s, i + 2, 128, 191)
         THEN << REPLACEMENT >> \o DecodeFrom(s, i + 2)
         ELSE << (b - 224) * 4096 + (s[i + 1] - 128) * 64 + (s[i + 2] - 128) >>
              \o DecodeFrom(s, i + 3)
      ELSE IF InRange(b, 240, 244) THEN
         IF ~IsCont(s, i + 1, SecondLo(b), SecondHi(b))
         THEN << REPLACEMENT >> \o DecodeFrom(s, i + 1)
         ELSE IF ~IsCont(s, i + 2, 128, 191)
         THEN << REPLACEMENT >> \o DecodeFrom(s, i + 2)
         ELSE IF ~IsCont(s, i + 3, 128, 191)
         THEN << REPLACEMENT >> \o DecodeFrom(s, i + 3)
         ELSE << (b - 240) * 262144 + (s[i + 1] - 128) * 4096
                 + (s[i + 2] - 128) * 64 + (s[i + 3] - 128) >>
              \o DecodeFrom(s, i + 4)
      ELSE << REPLACEMENT >> \o DecodeFrom(s, i + 1)

Decode(s) == DecodeFrom(s, 1)

\* ------------------------------------------------------------------------
\* text.replace("\r\n", "\n").replace("\r", "\n")
\* ------------------------------------------------------------------------
RECURSIVE ReplaceCrLf(_)
ReplaceCrLf(t) ==
    IF t = << >> THEN << >>
    ELSE IF Len(t) >= 2 /\ t[1] = CR /\ t[2] = LF
         THEN << LF >> \o ReplaceCrLf(From(t, 3))
         ELSE << t[1] >> \o ReplaceCrLf(Tail(t))

ReplaceCr(t) == [i \in 1..Len(t) |-> IF t[i] = CR THEN LF ELSE t[i]]

NormalizeNewlines(t) == CHOOSE r \in { ReplaceCr(u) : u \in {ReplaceCrLf(t)} } : TRUE

\* ------------------------------------------------------------------------
\* re.sub(r"133;[A-Z];.*?\x07", "", text)   ('.' does not match "\n")
\* ------------------------------------------------------------------------
RECURSIVE LazyBelEnd(_, _)
LazyBelEnd(t, j) ==
    IF j > Len(t) THEN 0
    ELSE IF t[j] = BEL THEN j
    ELSE IF t[j] = LF THEN 0
    ELSE LazyBelEnd(t, j + 1)

ShellMarkLen(t, i) ==
    IF i + 5 <= Len(t) /\ SubSeq(t, i, i + 3) = << 49, 51, 51, 59 >>
       /\ InRange(t[i + 4], 65, 90) /\ t[i + 5] = 59
    THEN LET e == LazyBelEnd(t, i + 6) IN IF e = 0 THEN 0 ELSE e - i + 1
    ELSE 0

RECURSIVE ShellMarkSubFrom(_, _)
ShellMarkSubFrom(t, i) ==
    IF i > Len(t) THEN << >>
    ELSE LET n == ShellMarkLen(t, i)
         IN IF n > 0 THEN ShellMarkSubFrom(t, i + n)
            ELSE << t[i] >> \o ShellMarkSubFrom(t, i + 1)

ShellMarkSub(t) == ShellMarkSubFrom(t, 1)

\* "".join(ch for ch in text if (ch >= " " or ch in "\n\t"))
Printable(ch) == ch >= SPACE \/ ch = LF \/ ch = TAB

\* a variant of the filter that keeps every character
KeepControl(t) == t

DropControl(t) == SelectSeq(t, Printable)

\* AGTerm._sanitize.  Each pass works on the value the pass before it
\* produced, as `text` is re-assigned statement by statement.
Sanitize(data) ==
    IF data = << >> THEN << >>
    ELSE CHOOSE text \in
           { DropControl(marked) : marked \in
             { ShellMarkSub(normal) : normal \in
               { NormalizeNewlines(decoded) : decoded \in
                 { Decode(stripped) : stripped \in
                   { AnsiSub(d) : d \in {data} } } } } } : TRUE

\* ------------------------------------------------------------------------
\* Configuration (AGTerm.__init__)
\* ------------------------------------------------------------------------
\* ready_markers or ["$ ", "# ", "pwndbg> ", "(gdb) "]
markers ==
    << << 36, 32 >>,
       << 35, 32 >>,
       << 112, 119, 110, 100, 98, 103, 62, 32 >>,
       << 40, 103, 100, 98, 41, 32 >> >>

\* ------------------------------------------------------------------------
\* The environment: what the spawned program prints.  Every byte carries
\* the session (g) that produced it and the command (c) it answers
\* (c = 0: the prompt printed at start-up); the program only reads b.
\* ------------------------------------------------------------------------
Tagged(bs, gen, cmd) == [i \in 1..Len(bs) |-> [b |-> bs[i], g |-> gen, c |-> cmd]]

Bytes(rs) == [i \in 1..Len(rs) |-> rs[i].b]

\* "$ "
PromptBytes == << 36, 32 >>

\* "a$<ESC>M ": output, then a prompt with an escape sequence inside it
ReplyBytes == << 97, 36, ESC, 77, 32 >>

Threads == {"main", "aux"}

Gens == 1..MaxStarts

Timeouts == 0..MaxTimeout

\* command text passed to write(): "e "
Cmds == { << 101, 32 >> }

\* letters passed to send_control(): "c", "1"
ControlChars == { 99, 49 }

VARIABLES
    max_history,    \* self.max_history
    master_fd,      \* self.master_fd (0: None, else the descriptor)
    proc,           \* self.proc (0: None, else the session it belongs to)
    history,        \* self.history
    buffer,         \* self.buffer
    running,        \* self._running
    reader_thread,  \* self._reader_thread (0: None)
    fdOpen,         \* descriptors open in the process
    childAlive,     \* per session: the child has not exited
    prompted,       \* per session: the child has printed its first prompt
    ptyOut,         \* per session: bytes written by the child, not yet read
    reader,         \* per session: the reader thread's position and chunk
    pc,             \* per caller thread: position
    call,           \* the main thread's current call: its arguments and locals
    notified,       \* the waiter on _cond has been notified
    now,            \* time.monotonic()
    res,            \* outcome of the main thread's last finished call
    nops,           \* calls begun by the main thread
    nstarts,        \* sessions started so far
    ncmds,          \* command lines delivered to a child so far
    auxCloses,      \* close() calls begun by the second thread
    log             \* per-claim observation variables

vars == << max_history, master_fd, proc, history, buffer, running, reader_thread,
           fdOpen, childAlive, prompted, ptyOut, reader, pc, call, notified, now,
           res, nops, nstarts, ncmds, auxCloses, log >>

\* ------------------------------------------------------------------------
\* Helpers over the state
\* ------------------------------------------------------------------------
\* AGTerm.is_alive: self._running and self.proc and self.proc.poll() is None
IsAlive == running /\ proc # 0 /\ childAlive[proc]

\* for m in self.markers: if m in current_text
HasMarker(text) == \E i \in 1..Len(markers) : Contains(text, markers[i])

IsPrefix(p, s) == Len(p) <= Len(s) /\ SubSeq(s, 1, Len(p)) = p

\* str.rstrip() on the characters used here (space, tab, newline, return)
RECURSIVE Rstrip(_)
Rstrip(t) ==
    IF t # << >> /\ t[Len(t)] \in {SPACE, TAB, LF, CR}
    THEN Rstrip(SubSeq(t, 1, Len(t) - 1)) ELSE t

\* str.encode(): the UTF-8 bytes of one code point
EncodeChar(c) ==
    IF c < 128 THEN << c >>
    ELSE IF c < 2048 THEN << 192 + (c \div 64), 128 + (c % 64) >>
    ELSE IF c < 65536
         THEN << 224 + (c \div 4096), 128 + ((c \div 64) % 64), 128 + (c % 64) >>
         ELSE << 240 + (c \div 262144), 128 + ((c \div 4096) % 64),
                 128 + ((c \div 64) % 64), 128 + (c % 64) >>

\* str.encode(): the UTF-8 bytes of a text
RECURSIVE Encode(_)
Encode(t) == IF t = << >> THEN << >> ELSE EncodeChar(t[1]) \o Encode(Tail(t))

\* write(): (text.rstrip() + "\n").encode()
WriteData(text) == Encode(Rstrip(text) \o << LF >>)

\* str.upper() on one ASCII character
Upper(ch) == IF InRange(ch, 97, 122) THEN ch - 32 ELSE ch

\* send_control(): bytes([ord(char) - ord("A") + 1])
ControlData(ch) == << Upper(ch) - 65 + 1 >>

\* self.history = self.history[-self.max_history:]  (a slice from -0 is the
\* whole sequence; a slice from -n keeps the last n when n <= len)
SliceFromMinus(h, n) == IF n = 0 \/ n >= Len(h) THEN h ELSE Tail_n(h, n)

\* the reader's trim of history, lines 134-135
TrimHistory(h, cap) == IF Len(h) > cap THEN SliceFromMinus(h, cap) ELSE h

\* the main thread's call: op, timeout, data, waitp are its arguments,
\* deadline its local; the rest observes it (waits: it has waited on the
\* condition; cmd: the number of the command line it sent; afterClose, dead,
\* noFd: what held when it began)
NoCall ==
    [op |-> "none", timeout |-> 0, deadline |-> 0, data |-> << >>, waitp |-> FALSE,
     waits |-> 0, cmd |-> 0, afterClose |-> FALSE, dead |-> FALSE, noFd |-> FALSE]

\* the outcome of a call: kind and text are what the caller gets; raw is
\* the buffer a match consumed; the rest observes the call (seen, late: the
\* sanitized buffer and `remaining <= 0` at its last iteration; expect, carry:
\* log.pending and log.carry when it matched; sent: the bytes it wrote)
NoRes ==
    [op |-> "none", kind |-> "none", text |-> << >>, raw |-> << >>, cmd |-> 0,
     waits |-> 0, timeout |-> 0, afterClose |-> FALSE, dead |-> FALSE,
     noFd |-> FALSE, seen |-> << >>, late |-> FALSE, expect |-> << >>,
     carry |-> << >>, sent |-> << >>]

\* observations: carry is the buffer left by the last timed-out read, pending
\* the chunks appended since the buffer was last cleared, closed that a
\* close() has returned and no start() has run since it began, dropped that
\* a restart() has cleared a buffer that held bytes
NoLog ==
    [carry |-> << >>, pending |-> << >>, closed |-> FALSE, overlapped |-> {},
     dropped |-> FALSE]

\* ------------------------------------------------------------------------
\* Init: the state after AGTerm.__init__ (which ends with start())
\* ------------------------------------------------------------------------
InitWith(caps) ==
    /\ max_history \in caps
    /\ master_fd = 1
    /\ proc = 1
    /\ history = << >>
    /\ buffer = << >>
    /\ running = TRUE
    /\ reader_thread = 1
    /\ fdOpen = {1}
    /\ childAlive = [g \in Gens |-> g = 1]
    /\ prompted = [g \in Gens |-> FALSE]
    /\ ptyOut = [g \in Gens |-> << >>]
    /\ reader = [g \in Gens |-> [pc |-> IF g = 1 THEN "loop" ELSE "none", chunk |-> << >>]]
    /\ pc = [t \in Threads |-> "idle"]
    /\ call = NoCall
    /\ notified = FALSE
    /\ now = 0
    /\ res = NoRes
    /\ nops = 0
    /\ nstarts = 1
    /\ ncmds = 0
    /\ auxCloses = 0
    /\ log = NoLog

\* any configured max_history_bytes
Init == InitWith(0..MaxHistoryCap)

\* one configured max_history_bytes
InitOne == InitWith({MaxHistoryCap})

\* ------------------------------------------------------------------------
\* The environment: the child process and the clock
\* ------------------------------------------------------------------------
\* the child prints its first prompt
ChildPrompt(g) ==
    /\ childAlive[g] /\ ~prompted[g] /\ g \in fdOpen
    /\ prompted' = [prompted EXCEPT ![g] = TRUE]
    /\ ptyOut' = [ptyOut EXCEPT ![g] = @ \o Tagged(PromptBytes, g, 0)]
    /\ UNCHANGED << max_history, master_fd, proc, history, buffer, running,
                    reader_thread, fdOpen, childAlive, reader, pc, call, notified,
                    now, res, nops, nstarts, ncmds, auxCloses, log >>

\* the child exits on its own
ChildExit(g) ==
    /\ childAlive[g]
    /\ childAlive' = [childAlive EXCEPT ![g] = FALSE]
    /\ UNCHANGED << max_history, master_fd, proc, history, buffer, running,
                    reader_thread, fdOpen, prompted, ptyOut, reader, pc, call,
                    notified, now, res, nops, nstarts, ncmds, auxCloses, log >>

InRead == pc["main"] \in {"rd_poll", "rd_wait"}

\* time.monotonic() advances; only a pending read_until_ready looks at it
Tick ==
    /\ InRead /\ now < call.deadline
    /\ now' = now + 1
    /\ UNCHANGED << max_history, master_fd, proc, history, buffer, running,
                    reader_thread, fdOpen, childAlive, prompted, ptyOut, reader, pc,
                    call, notified, res, nops, nstarts, ncmds, auxCloses, log >>

\* ------------------------------------------------------------------------
\* AGTerm._reader_loop, one thread per start()
\* ------------------------------------------------------------------------
SetReader(g, p, c) == reader' = [reader EXCEPT ![g] = [pc |-> p, chunk |-> c]]

\* line 121: while self._running
ReaderLoop(g) ==
    /\ reader[g].pc = "loop"
    /\ SetReader(g, IF running THEN "select" ELSE "exit", << >>)
    /\ UNCHANGED << max_history, master_fd, proc, history, buffer, running,
                    reader_thread, fdOpen, childAlive, prompted, ptyOut, pc, call,
                    notified, now, res, nops, nstarts, ncmds, auxCloses, log >>

\* what select() on self.master_fd gives: an exception (None or a closed
\* descriptor), readable (data, or the child side hung up), or its timeout
SelectOutcome(fd, open, out, alive) ==
    IF fd = 0 \/ fd \notin open THEN "exit"
    ELSE IF out[fd] # << >> \/ ~alive[fd] THEN "read"
    ELSE "loop"

\* lines 123-125
ReaderSelect(g) ==
    /\ reader[g].pc = "select"
    /\ SetReader(g, SelectOutcome(master_fd, fdOpen, ptyOut, childAlive), << >>)
    /\ UNCHANGED << max_history, master_fd, proc, history, buffer, running,
                    reader_thread, fdOpen, childAlive, prompted, ptyOut, pc, call,
                    notified, now, res, nops, nstarts, ncmds, auxCloses, log >>

\* lines 127-129: os.read(self.master_fd, 8192); it blocks while the child
\* lives and has written nothing
ReaderRead(g) ==
    /\ reader[g].pc = "read"
    /\ \/ /\ master_fd = 0 \/ master_fd \notin fdOpen
          /\ SetReader(g, "exit", << >>)
          /\ UNCHANGED ptyOut
       \/ /\ master_fd \in fdOpen /\ ptyOut[master_fd] # << >>
          /\ \E n \in 1..Min(MaxChunk, Len(ptyOut[master_fd])) :
                /\ SetReader(g, "append", SubSeq(ptyOut[master_fd], 1, n))
                /\ ptyOut' = [ptyOut EXCEPT ![master_fd] = From(@, n + 1)]
       \/ /\ master_fd \in fdOpen /\ ptyOut[master_fd] = << >>
          /\ ~childAlive[master_fd]
          /\ SetReader(g, "exit", << >>)
          /\ UNCHANGED ptyOut
    /\ UNCHANGED << max_history, master_fd, proc, history, buffer, running,
                    reader_thread, fdOpen, childAlive, prompted, pc, call,
                    notified, now, res, nops, nstarts, ncmds, auxCloses, log >>

\* a variant that puts the chunk in front
PrependBuffer(buf, chunk) == chunk \o buf

\* a variant of the append that keeps only the new chunk
OverwriteBuffer(buf, chunk) == chunk

\* line 132: self.buffer.extend(chunk)
ExtendBuffer(buf, chunk) == buf \o chunk

\* lines 133-135: self.history.extend(chunk), then the trim
ExtendHistory(h, chunk, cap) == TrimHistory(h \o chunk, cap)

\* lines 131-136, under the lock
ReaderAppend(g) ==
    /\ reader[g].pc = "append"
    /\ buffer' = ExtendBuffer(buffer, reader[g].chunk)
    /\ history' = ExtendHistory(history, reader[g].chunk, max_history)
    /\ notified' = (notified \/ pc["main"] = "rd_wait")
    /\ log' = [log EXCEPT !.pending = @ \o reader[g].chunk]
    /\ SetReader(g, "loop", << >>)
    /\ UNCHANGED << max_history, master_fd, proc, running, reader_thread, fdOpen,
                    childAlive, prompted, ptyOut, pc, call, now, res, nops,
                    nstarts, ncmds, auxCloses >>

\* a variant of the exit that sets the flag instead of clearing it
ReaderExitSetsFlag(g) ==
    /\ reader[g].pc = "exit"
    /\ running' = TRUE
    /\ SetReader(g, "done", << >>)
    /\ UNCHANGED << max_history, master_fd, proc, history, buffer, reader_thread,
                    fdOpen, childAlive, prompted, ptyOut, pc, call, notified, now,
                    res, nops, nstarts, ncmds, auxCloses, log >>

\* line 139: self._running = False
ReaderExit(g) ==
    /\ reader[g].pc = "exit"
    /\ running' = FALSE
    /\ SetReader(g, "done", << >>)
    /\ UNCHANGED << max_history, master_fd, proc, history, buffer, reader_thread,
                    fdOpen, childAlive, prompted, ptyOut, pc, call, notified, now,
                    res, nops, nstarts, ncmds, auxCloses, log >>

\* ------------------------------------------------------------------------
\* Caller threads.  "main" issues the calls of the API one after another;
\* "aux" is a second thread that may call close() at any moment.
\* ------------------------------------------------------------------------
Goto(t, p) == pc' = [pc EXCEPT ![t] = p]

Outcome(kind) ==
    [NoRes EXCEPT !.op = call.op, !.kind = kind, !.cmd = call.cmd,
                  !.waits = call.waits, !.timeout = call.timeout,
                  !.afterClose = call.afterClose, !.dead = call.dead,
                  !.noFd = call.noFd]

\* the main thread's call returns or raises.  time.monotonic() has no
\* defined reference point, so the clock is re-based between calls.
Return(r) ==
    /\ Goto("main", "idle")
    /\ res' = r
    /\ call' = NoCall
    /\ now' = 0

\* the call returns None or raises: nothing is returned from the buffer
Finish(kind) == Return(Outcome(kind))

\* the call goes on to position p with its locals c
Continue(p, c) ==
    /\ Goto("main", p)
    /\ call' = c
    /\ UNCHANGED << res, now >>

StartPcs == {"st_open", "st_run"}

ClosePcs == {"cl_flag", "cl_kill", "cl_closefd", "cl_none", "cl_join"}

CanBegin == pc["main"] = "idle" /\ nops < MaxOps

\* the session has no open controller descriptor
NoFd == master_fd = 0 \/ master_fd \notin fdOpen

Begin(p, c) ==
    /\ CanBegin
    /\ nops' = nops + 1
    /\ res' = NoRes
    /\ call' = [c EXCEPT !.afterClose = log.closed, !.dead = ~IsAlive, !.noFd = NoFd]
    /\ Goto("main", p)

\* read_until_ready(timeout_ms), line 156
BeginRead(t) ==
    /\ Begin("rd_poll", [NoCall EXCEPT !.op = "read", !.timeout = t,
                                       !.deadline = now + t])
    /\ UNCHANGED << max_history, master_fd, proc, history, buffer, running,
                    reader_thread, fdOpen, childAlive, prompted, ptyOut, reader,
                    notified, now, nstarts, ncmds, auxCloses, log >>

BeginWriteRaw(op, data, t) ==
    /\ Begin("wr_check", [NoCall EXCEPT !.op = op, !.timeout = t, !.data = data])
    /\ UNCHANGED << max_history, master_fd, proc, history, buffer, running,
                    reader_thread, fdOpen, childAlive, prompted, ptyOut, reader,
                    notified, now, nstarts, ncmds, auxCloses, log >>

\* send_and_read_until_ready(cmd, timeout_ms), line 177
BeginSend(cmd, t) == BeginWriteRaw("send", WriteData(cmd), t)

\* write(text), line 147
BeginWrite(cmd) == BeginWriteRaw("write", WriteData(cmd), 0)

\* send_control(char), lines 150-153: only a letter reaches write_raw
BeginControl(ch) ==
    /\ InRange(Upper(ch), 65, 90)
    /\ BeginWriteRaw("control", ControlData(ch), 0)

\* write_raw returned: send_and_read_until_ready goes on to line 178
AfterWrite(sent) ==
    IF call.op = "send"
    THEN Continue("rd_poll", [call EXCEPT !.deadline = now + call.timeout,
                                          !.cmd = ncmds + 1, !.data = sent])
    ELSE Return([Outcome("ok") EXCEPT !.cmd = ncmds + 1, !.sent = sent])

\* line 142: if self.master_fd
WriteCheck ==
    /\ pc["main"] = "wr_check"
    /\ IF master_fd = 0
       THEN AfterWrite(<< >>)
       ELSE Continue("wr_write", call)
    /\ UNCHANGED << max_history, master_fd, proc, history, buffer, running,
                    reader_thread, fdOpen, childAlive, prompted, ptyOut, reader,
                    notified, nops, nstarts, ncmds, auxCloses, log >>

\* what os.write(self.master_fd, data) does
WriteOutcome(fd, open) ==
    IF fd = 0 THEN "typeerror" ELSE IF fd \notin open THEN "oserror" ELSE "ok"

\* a living child answers a command line with its output and a new prompt
Answers(fd, data) == childAlive[fd] /\ data[Len(data)] = LF

\* what the child prints for command number n: its first prompt, if it has
\* not printed it yet, then the answer
Reply(fd, n) ==
    (IF prompted[fd] THEN << >> ELSE Tagged(PromptBytes, fd, 0))
    \o Tagged(ReplyBytes, fd, n)

\* line 143: os.write(self.master_fd, data)
WriteDo ==
    /\ pc["main"] = "wr_write"
    /\ IF WriteOutcome(master_fd, fdOpen) = "ok"
       THEN /\ IF Answers(master_fd, call.data)
               THEN /\ ncmds' = ncmds + 1
                    /\ ptyOut' = [ptyOut EXCEPT ![master_fd] =
                                     @ \o Reply(master_fd, ncmds + 1)]
                    /\ prompted' = [prompted EXCEPT ![master_fd] = TRUE]
               ELSE UNCHANGED << ncmds, ptyOut, prompted >>
            /\ AfterWrite(call.data)
       ELSE /\ Finish(WriteOutcome(master_fd, fdOpen))
            /\ UNCHANGED << ncmds, ptyOut, prompted >>
    /\ UNCHANGED << max_history, master_fd, proc, history, buffer, running,
                    reader_thread, fdOpen, childAlive, reader, notified,
                    nops, nstarts, auxCloses, log >>

\* ------------------------------------------------------------------------
\* read_until_ready
\* ------------------------------------------------------------------------
DiagLen == 150

\* last_output[-150:]
LastChars(text, n) == IF Len(text) <= n THEN text ELSE Tail_n(text, n)

\* a variant that looks at the deadline before the markers
PollOutcomeTimeoutFirst(text, remaining, alive) ==
    IF remaining <= 0 THEN "timeout"
    ELSE IF HasMarker(text) THEN "matched"
    ELSE IF ~alive THEN "died"
    ELSE "wait"

\* a variant that never looks at the session
PollOutcomeNoDeath(text, remaining, alive) ==
    IF HasMarker(text) THEN "matched"
    ELSE IF remaining <= 0 THEN "timeout"
    ELSE "wait"

\* a variant that looks at the session before the deadline
PollOutcomeDiedFirst(text, remaining, alive) ==
    IF HasMarker(text) THEN "matched"
    ELSE IF ~alive THEN "died"
    ELSE IF remaining <= 0 THEN "timeout"
    ELSE "wait"

\* a variant that looks at the session before anything else
PollOutcomeSessionFirst(text, remaining, alive) ==
    IF ~alive THEN "died"
    ELSE IF HasMarker(text) THEN "matched"
    ELSE IF remaining <= 0 THEN "timeout"
    ELSE "wait"

\* lines 159-172: what one iteration under the lock decides
PollOutcome(text, remaining, alive) ==
    IF HasMarker(text) THEN "matched"
    ELSE IF remaining <= 0 THEN "timeout"
    ELSE IF ~alive THEN "died"
    ELSE "wait"

\* a variant that clears the buffer whenever the call ends
BufferClearedOnExit(buf, outcome) == IF outcome = "wait" THEN buf ELSE << >>

\* the buffer after an iteration with that outcome (line 162)
BufferAfterPoll(buf, outcome) == IF outcome = "matched" THEN << >> ELSE buf

\* lines 158-172, one iteration under the lock
RdPoll ==
    /\ pc["main"] = "rd_poll"
    /\ \E text \in {Sanitize(Bytes(buffer))} :
       \E outcome \in {PollOutcome(text, call.deadline - now, IsAlive)} :
       LET seen == [Outcome(outcome) EXCEPT !.seen = text,
                                            !.late = (call.deadline - now <= 0),
                                            !.sent = call.data]
       IN /\ buffer' = BufferAfterPoll(buffer, outcome)
          /\ CASE outcome = "matched" ->
                    /\ Return([seen EXCEPT !.text = text, !.raw = buffer,
                                           !.expect = log.pending,
                                           !.carry = log.carry])
                    /\ log' = [log EXCEPT !.pending = << >>, !.carry = << >>]
                    /\ UNCHANGED notified
               [] outcome = "timeout" ->
                    /\ Return([seen EXCEPT !.text = LastChars(text, DiagLen)])
                    /\ log' = [log EXCEPT !.carry = buffer]
                    /\ UNCHANGED notified
               [] outcome = "died" ->
                    /\ Return(seen)
                    /\ UNCHANGED << notified, log >>
               [] OTHER ->
                    /\ Continue("rd_wait", [call EXCEPT !.waits = 1])
                    /\ notified' = FALSE
                    /\ UNCHANGED log
    /\ UNCHANGED << max_history, master_fd, proc, history, running, reader_thread,
                    fdOpen, childAlive, prompted, ptyOut, reader, nops, nstarts,
                    ncmds, auxCloses >>

\* a variant of the wait that only a notification ends
RdWakeOnNotifyOnly ==
    /\ pc["main"] = "rd_wait"
    /\ notified
    /\ Goto("main", "rd_poll")
    /\ notified' = FALSE
    /\ UNCHANGED << max_history, master_fd, proc, history, buffer, running,
                    reader_thread, fdOpen, childAlive, prompted, ptyOut, reader,
                    call, now, res, nops, nstarts, ncmds, auxCloses, log >>

\* line 172: self._cond.wait(timeout=remaining) returns, notified or timed out
RdWake ==
    /\ pc["main"] = "rd_wait"
    /\ notified \/ now >= call.deadline
    /\ Goto("main", "rd_poll")
    /\ notified' = FALSE
    /\ UNCHANGED << max_history, master_fd, proc, history, buffer, running,
                    reader_thread, fdOpen, childAlive, prompted, ptyOut, reader,
                    call, now, res, nops, nstarts, ncmds, auxCloses, log >>

\* ------------------------------------------------------------------------
\* close, by either thread
\* ------------------------------------------------------------------------
BeginClose(t) ==
    /\ IF t = "main"
       THEN /\ Begin("cl_flag", [NoCall EXCEPT !.op = "close"])
            /\ UNCHANGED auxCloses
       ELSE /\ pc[t] = "idle"
            /\ auxCloses < MaxAuxCloses
            /\ auxCloses' = auxCloses + 1
            /\ Goto(t, "cl_flag")
            /\ UNCHANGED << nops, call, res >>
    /\ log' = [log EXCEPT !.overlapped =
                  IF pc["main"] \in StartPcs THEN @ \cup {t} ELSE @ \ {t}]
    /\ UNCHANGED << max_history, master_fd, proc, history, buffer, running,
                    reader_thread, fdOpen, childAlive, prompted, ptyOut, reader,
                    notified, now, nstarts, ncmds >>

\* line 184: self._running = False
CloseFlag(t) ==
    /\ pc[t] = "cl_flag"
    /\ running' = FALSE
    /\ Goto(t, "cl_kill")
    /\ UNCHANGED << max_history, master_fd, proc, history, buffer, reader_thread,
                    fdOpen, childAlive, prompted, ptyOut, reader, call, notified,
                    now, res, nops, nstarts, ncmds, auxCloses, log >>

\* lines 185-191: SIGKILL to the process group, bounded wait, errors
\* swallowed; then `if self.master_fd`
CloseKill(t) ==
    /\ pc[t] = "cl_kill"
    /\ childAlive' = IF proc # 0 THEN [childAlive EXCEPT ![proc] = FALSE]
                     ELSE childAlive
    /\ Goto(t, IF master_fd # 0 THEN "cl_closefd" ELSE "cl_join")
    /\ UNCHANGED << max_history, master_fd, proc, history, buffer, running,
                    reader_thread, fdOpen, prompted, ptyOut, reader, call, notified,
                    now, res, nops, nstarts, ncmds, auxCloses, log >>

\* lines 192-195: os.close(self.master_fd), errors swallowed
CloseFd(t) ==
    /\ pc[t] = "cl_closefd"
    /\ fdOpen' = fdOpen \ {master_fd}
    /\ Goto(t, "cl_none")
    /\ UNCHANGED << max_history, master_fd, proc, history, buffer, running,
                    reader_thread, childAlive, prompted, ptyOut, reader, call,
                    notified, now, res, nops, nstarts, ncmds, auxCloses, log >>

\* line 196: self.master_fd = None
CloseNone(t) ==
    /\ pc[t] = "cl_none"
    /\ master_fd' = 0
    /\ Goto(t, "cl_join")
    /\ UNCHANGED << max_history, proc, history, buffer, running, reader_thread,
                    fdOpen, childAlive, prompted, ptyOut, reader, call, notified,
                    now, res, nops, nstarts, ncmds, auxCloses, log >>

\* lines 197-198: join(timeout=0.5) returns, whether or not the reader has
\* finished; close() returns, and restart() goes on to line 204
CloseJoin(t) ==
    /\ pc[t] = "cl_join"
    /\ log' = [log EXCEPT !.closed = (@ \/ t \notin log.overlapped)]
    /\ IF t = "main" /\ call.op = "restart"
       THEN Continue("rs_clear", call)
       ELSE IF t = "main"
       THEN Finish("ok")
       ELSE Goto(t, "idle") /\ UNCHANGED << res, call, now >>
    /\ UNCHANGED << max_history, master_fd, proc, history, buffer, running,
                    reader_thread, fdOpen, childAlive, prompted, ptyOut, reader,
                    notified, nops, nstarts, ncmds, auxCloses >>

\* ------------------------------------------------------------------------
\* restart: close(), clear, start(), optional read_until_ready
\* ------------------------------------------------------------------------
BeginRestart(w, t) ==
    /\ nstarts < MaxStarts
    /\ Begin("cl_flag", [NoCall EXCEPT !.op = "restart", !.waitp = w, !.timeout = t])
    /\ log' = [log EXCEPT !.overlapped = @ \ {"main"}]
    /\ UNCHANGED << max_history, master_fd, proc, history, buffer, running,
                    reader_thread, fdOpen, childAlive, prompted, ptyOut, reader,
                    notified, now, nstarts, ncmds, auxCloses >>

\* lines 204-206, under the lock
RestartClear ==
    /\ pc["main"] = "rs_clear"
    /\ buffer' = << >>
    /\ history' = << >>
    /\ log' = [log EXCEPT !.pending = << >>, !.carry = << >>,
                          !.dropped = (@ \/ buffer # << >>)]
    /\ Goto("main", "st_open")
    /\ UNCHANGED << max_history, master_fd, proc, running, reader_thread, fdOpen,
                    childAlive, prompted, ptyOut, reader, call, notified, now, res,
                    nops, nstarts, ncmds, auxCloses >>

\* lines 82-106: pty.openpty(), self.master_fd = master,
\* self.proc = subprocess.Popen(...)
StartOpen ==
    /\ pc["main"] = "st_open"
    /\ nstarts' = nstarts + 1
    /\ master_fd' = nstarts + 1
    /\ fdOpen' = fdOpen \cup {nstarts + 1}
    /\ proc' = nstarts + 1
    /\ childAlive' = [childAlive EXCEPT ![nstarts + 1] = TRUE]
    /\ log' = [log EXCEPT !.closed = FALSE,
                          !.overlapped = @ \cup {t \in Threads : pc[t] \in ClosePcs}]
    /\ Goto("main", "st_run")
    /\ UNCHANGED << max_history, history, buffer, running, reader_thread,
                    prompted, ptyOut, reader, call, notified, now, res,
                    nops, ncmds, auxCloses >>

\* lines 116-118: self._running = True and the new reader thread starts;
\* start() returns and restart() goes on to lines 208-209
StartRun ==
    /\ pc["main"] = "st_run"
    /\ running' = TRUE
    /\ reader_thread' = nstarts
    /\ reader' = [reader EXCEPT ![nstarts] = [pc |-> "loop", chunk |-> << >>]]
    /\ IF call.waitp
       THEN Continue("rd_poll", [call EXCEPT !.deadline = now + call.timeout])
       ELSE Finish("ok")
    /\ UNCHANGED << max_history, master_fd, proc, history, buffer, fdOpen,
                    childAlive, prompted, ptyOut, notified, nops, nstarts,
                    ncmds, auxCloses, log >>

\* ------------------------------------------------------------------------
\* The specifications
\* ------------------------------------------------------------------------
ReadCalls ==
    \/ \E t \in Timeouts : BeginRead(t)
    \/ RdPoll
    \/ RdWake

SendCalls ==
    \/ \E c \in Cmds, t \in Timeouts : BeginSend(c, t)
    \/ WriteCheck
    \/ WriteDo

WriteCalls ==
    \/ \E c \in Cmds : BeginWrite(c)
    \/ \E ch \in ControlChars : BeginControl(ch)

CloseStep(t) ==
    \/ CloseFlag(t)
    \/ CloseKill(t)
    \/ CloseFd(t)
    \/ CloseNone(t)
    \/ CloseJoin(t)

RestartCalls ==
    \/ \E w \in BOOLEAN, t \in Timeouts : BeginRestart(w, t)
    \/ RestartClear
    \/ StartOpen
    \/ StartRun

ReaderStep(g) ==
    \/ ReaderLoop(g)
    \/ ReaderSelect(g)
    \/ ReaderRead(g)
    \/ ReaderAppend(g)
    \/ ReaderExit(g)

EnvStep ==
    \/ \E g \in Gens : ChildPrompt(g)
    \/ \E g \in Gens : ChildExit(g)
    \/ Tick

\* every call of the API, by two threads
Next ==
    \/ ReadCalls
    \/ SendCalls
    \/ WriteCalls
    \/ RestartCalls
    \/ \E t \in Threads : BeginClose(t) \/ CloseStep(t)
    \/ \E g \in Gens : ReaderStep(g)
    \/ EnvStep

Spec == Init /\ [][Next]_vars

\* one session that is read and written, never closed
NextRead ==
    \/ ReadCalls
    \/ SendCalls
    \/ \E g \in Gens : ReaderStep(g)
    \/ EnvStep

SpecRead == Init /\ [][NextRead]_vars

\* the same, with the clock advancing and the calling thread scheduled
FairRead == SpecRead /\ WF_vars(Tick) /\ WF_vars(RdPoll) /\ WF_vars(RdWake)

\* one session that is read, written and closed, by two threads
NextClose ==
    \/ ReadCalls
    \/ SendCalls
    \/ WriteCalls
    \/ \E t \in Threads : BeginClose(t) \/ CloseStep(t)
    \/ \E g \in Gens : ReaderStep(g)
    \/ EnvStep

SpecClose == InitOne /\ [][NextClose]_vars

\* the reader thread is scheduled (its select returns within 0.1 s) and the
\* steps of close() are bounded (wait(timeout=0.2), join(timeout=0.5))
FairClose ==
    /\ SpecClose
    /\ WF_vars(\E g \in Gens : ReaderStep(g))
    /\ WF_vars(\E t \in Threads : CloseStep(t))

\* sessions that are read, closed and restarted by one thread
NextRestart ==
    \/ ReadCalls
    \/ RestartCalls
    \/ BeginClose("main")
    \/ CloseStep("main")
    \/ \E g \in Gens : ReaderStep(g)
    \/ EnvStep

SpecRestart == InitOne /\ [][NextRestart]_vars

\* ------------------------------------------------------------------------
\* _sanitize on arbitrary terminal output: the child has printed x, the
\* reader has appended all of it, and the main thread has called
\* read_until_ready, whose iterations sanitize the buffer.
\* ------------------------------------------------------------------------
\* bytes the inputs are made of: ESC BEL CR ] ; \ [ t $ space, and the
\* two bytes of a two-byte UTF-8 character
SanAlphabet == { ESC, BEL, CR, 93, 59, 92, 91, 116, 36, SPACE, 195, 169 }

\* every byte string of the alphabet up to MaxSanLen bytes
SanShort == UNION { [1..n -> SanAlphabet] : n \in 0..MaxSanLen }

\* bytes of the text inside an OSC sequence: "0", "t", "u", space
OscTextBytes == { 48, 116, 117, SPACE }

OscTexts == UNION { [1..n -> OscTextBytes] : n \in 1..MaxPayload }

\* the two terminators of an OSC sequence: BEL, ESC \
OscTerminators == { << BEL >>, << ESC, 92 >> }

\* ESC ] digits ; text terminator, with at most one byte before and after
SanFramed ==
    { pre \o << ESC, 93 >> \o par \o << 59 >> \o txt \o term \o post :
        pre \in { << >>, << 116 >>, << ESC >> },
        par \in { << >>, << 48 >> },
        txt \in OscTexts,
        term \in OscTerminators,
        post \in { << >>, << 36, SPACE >>, << 92 >> } }

SanInputs == SanShort \cup SanFramed

InitSan ==
    \E x \in SanInputs, t \in Timeouts :
        /\ max_history = MaxHistoryCap
        /\ master_fd = 1
        /\ proc = 1
        /\ history = ExtendHistory(<< >>, Tagged(x, 1, 0), MaxHistoryCap)
        /\ buffer = Tagged(x, 1, 0)
        /\ running = TRUE
        /\ reader_thread = 1
        /\ fdOpen = {1}
        /\ childAlive = [g \in Gens |-> g = 1]
        /\ prompted = [g \in Gens |-> g = 1]
        /\ ptyOut = [g \in Gens |-> << >>]
        /\ reader = [g \in Gens |-> [pc |-> IF g = 1 THEN "loop" ELSE "none",
                                      chunk |-> << >>]]
        /\ pc = [th \in Threads |-> IF th = "main" THEN "rd_poll" ELSE "idle"]
        /\ call = [NoCall EXCEPT !.op = "read", !.timeout = t, !.deadline = t]
        /\ notified = FALSE
        /\ now = 0
        /\ res = NoRes
        /\ nops = 1
        /\ nstarts = 1
        /\ ncmds = 0
        /\ auxCloses = 0
        /\ log = [NoLog EXCEPT !.pending = Tagged(x, 1, 0)]

NextSan ==
    \/ RdPoll
    \/ RdWake
    \/ Tick

SpecSan == InitSan /\ [][NextSan]_vars

\* ------------------------------------------------------------------------
\* Properties
\* ------------------------------------------------------------------------
MainLeaves(p) == pc["main"] = p /\ pc'["main"] # p

ReadOps == {"read", "send", "restart"}

\* C1: when the first iteration of a read_until_ready call finds a marker in
\* the sanitized buffer, the call returns in that iteration, without waiting on
\* the condition, whatever its timeout and whether or not the session is alive;
\* the returned text contains a marker and the buffer is empty on return.
C1_MarkerReturnsAtOnce ==
    [][(MainLeaves("rd_poll") /\ call.waits = 0
          /\ HasMarker(Sanitize(Bytes(buffer))))
       => (pc'["main"] = "idle" /\ res'.kind = "matched" /\ res'.waits = 0
             /\ HasMarker(res'.text) /\ buffer' = << >>)]_vars

\* a read with timeout 0 on a dead session returned a match at once
C1_Witness ==
    /\ res.kind = "matched" /\ res.op = "read" /\ res.waits = 0
    /\ res.timeout = 0 /\ res.dead /\ HasMarker(res.text) /\ buffer = << >>

\* C2: the iteration that raises the timeout error leaves the buffer as it
\* is; what it left stays at the front of the buffer, in order, and the raw
\* bytes consumed by the next matched read begin with it, the text returned
\* being their sanitization.
C2_TimeoutKeepsBuffer ==
    [][/\ (MainLeaves("rd_poll") /\ res'.kind = "timeout") =>
              (buffer' = buffer /\ log'.carry = buffer)
       /\ IsPrefix(log'.carry, buffer')
       /\ (MainLeaves("rd_poll") /\ res'.kind = "matched") =>
              (IsPrefix(log.carry, res'.raw)
                 /\ res'.text = Sanitize(Bytes(res'.raw)))]_vars

\* a read matched on a buffer that began with bytes a timed-out read had left
C2_Witness ==
    /\ res.kind = "matched" /\ res.carry # << >>
    /\ IsPrefix(res.carry, res.raw) /\ Len(res.raw) > Len(res.carry)

\* C3 as stated: after close() has returned, is_alive() is false and every
\* later read_until_ready fails with 'Subprocess died'.
C3_ReadAfterCloseDies ==
    /\ log.closed => ~IsAlive
    /\ (res.op = "read" /\ res.afterClose) => res.kind = "died"

\* C3 as amended: after close() has returned, is_alive() is false and a later
\* read_until_ready never waits: it returns the text when the sanitized buffer
\* holds a marker, else raises the timeout error when no time remains, and
\* fails with 'Subprocess died' exactly when neither is the case.
C3_ReadAfterCloseNeverWaits ==
    /\ log.closed => ~IsAlive
    /\ (res.op = "read" /\ res.afterClose) =>
          /\ res.waits = 0
          /\ res.kind \in {"matched", "timeout", "died"}
          /\ res.kind = "matched" <=> HasMarker(res.seen)
          /\ res.kind = "timeout" <=> (~HasMarker(res.seen) /\ res.late)
          /\ res.kind = "died" <=> (~HasMarker(res.seen) /\ ~res.late)

\* a read with a positive timeout, begun after close() returned, has died
C3_Witness ==
    /\ res.op = "read" /\ res.afterClose /\ res.kind = "died"
    /\ res.timeout > 0 /\ log.closed /\ ~IsAlive

\* C4 as stated: the text a send_and_read_until_ready call returns holds
\* no byte the child printed in answer to an earlier command.
C4_NoLeakBetweenCommands ==
    (res.op = "send" /\ res.kind = "matched") =>
        \A i \in 1..Len(res.raw) : res.raw[i].c \notin 1..(res.cmd - 1)

\* C5 as stated: history never holds more than max_history bytes.
C5_HistoryCapped == Len(history) <= max_history

\* C6 as stated: once restart() has started the new session and until the
\* new child prints, the buffer and the history are empty.
C6_FreshAfterRestart ==
    (nstarts > 1 /\ reader_thread = nstarts /\ ~prompted[nstarts]) =>
        (buffer = << >> /\ history = << >>)

\* C7: with the clock advancing and the caller scheduled, every
\* read_until_ready call ends; it ends as matched, timed out or dead; and it
\* starts a wait on the condition only while its deadline lies ahead.
C7_ReadTerminates ==
    /\ InRead ~> ~InRead
    /\ [][(MainLeaves("rd_poll") /\ pc'["main"] = "idle") =>
             res'.kind \in {"matched", "timeout", "died"}]_vars
    /\ [][(MainLeaves("rd_poll") /\ pc'["main"] = "rd_wait") =>
             now < call.deadline]_vars

\* a call that waited on the condition has ended with the timeout error
C7_Witness ==
    /\ res.op \in ReadOps /\ res.kind = "timeout" /\ res.waits = 1
    /\ pc["main"] = "idle"

C9_MatchReturnsAppended ==
    /\ buffer = log.pending
    /\ res.kind = "matched" =>
          (res.raw = res.expect /\ res.text = Sanitize(Bytes(res.expect)))

\* a read that waited has matched on more bytes than one chunk holds
C9_Witness ==
    /\ res.kind = "matched" /\ res.waits = 1 /\ Len(res.raw) > MaxChunk
    /\ res.raw = res.expect

\* C10 as stated: a write or send_control call begun while the session has
\* no open controller descriptor sends nothing and raises nothing.
C10_SilentWithoutDescriptor ==
    (res.op \in {"write", "control"} /\ res.noFd) =>
        (res.kind = "ok" /\ res.sent = << >>)

\* ------------------------------------------------------------------------
\* Properties of _sanitize
\* ------------------------------------------------------------------------
\* position j of x begins a terminator of an OSC sequence: BEL or ESC \
IsOscTerminator(x, j) ==
    x[j] = BEL \/ (x[j] = ESC /\ j < Len(x) /\ x[j + 1] = 92)

\* the complete OSC sequences of x, in the form the pattern spells out
\* (ESC ] digits ; text terminator): <<i, j>> with the introducer at i, i + 1
\* and the first terminator after the ";" beginning at j
OscSpans(x) ==
    { sp \in (1..Len(x)) \X (1..Len(x)) :
        /\ sp[1] + 2 < sp[2]
        /\ x[sp[1]] = ESC /\ x[sp[1] + 1] = 93
        /\ \E k \in (sp[1] + 2)..(sp[2] - 1) :
              /\ x[k] = 59
              /\ \A d \in (sp[1] + 2)..(k - 1) : InRange(x[d], 48, 57)
              /\ \A m \in (k + 1)..(sp[2] - 1) : ~IsOscTerminator(x, m)
        /\ IsOscTerminator(x, sp[2]) }

\* no byte that x holds only between the introducer and the terminator of
\* one of its OSC sequences is a character of out
OscPayloadGone(x, out) ==
    \A sp \in OscSpans(x) : \A k \in (sp[1] + 2)..(sp[2] - 1) :
        (/\ x[k] < 128
         /\ \A m \in 1..Len(x) : x[m] = x[k] => m \in (sp[1] + 2)..(sp[2] - 1))
        => \A n \in 1..Len(out) : out[n] # x[k]

\* C11 as stated: when the buffer holds a complete OSC sequence, the
\* sanitized text holds none of the bytes between its ESC ] and its terminator.
C11_OscRemoved ==
    [][(MainLeaves("rd_poll") /\ pc'["main"] = "idle") =>
          OscPayloadGone(Bytes(buffer), res'.seen)]_vars

\* C12: sanitizing the UTF-8 encoding of a sanitized text gives that text.
C12_SanitizeIdempotent ==
    res.kind \in {"matched", "timeout", "died"} =>
        Sanitize(Encode(res.seen)) = res.seen

\* a text was returned from which an escape sequence was stripped and in
\* which an undecodable byte was replaced
C12_Witness ==
    /\ res.kind = "timeout" /\ res.seen # << >>
    /\ \E n \in 1..Len(res.seen) : res.seen[n] = REPLACEMENT
    /\ \E i \in 1..Len(buffer) : buffer[i].b = ESC
    /\ Len(res.seen) < Len(buffer)

\* ------------------------------------------------------------------------
\* Properties of the read loop and of the session's life cycle
\* ------------------------------------------------------------------------
\* C13: an iteration of read_until_ready returns the text when the sanitized
\* buffer holds a marker, whatever the deadline and the session; else raises
\* the timeout error when no time remains, whatever the session; else raises
\* 'Subprocess died' when the session is not alive; else waits.  A wait that
\* ends leads to a new iteration.
C13_IterationOrder ==
    [][/\ MainLeaves("rd_poll") =>
            \E text \in {Sanitize(Bytes(buffer))} :
            \E late \in {call.deadline - now <= 0} :
              /\ HasMarker(text) =>
                    (pc'["main"] = "idle" /\ res'.kind = "matched")
              /\ (~HasMarker(text) /\ late) =>
                    (pc'["main"] = "idle" /\ res'.kind = "timeout")
              /\ (~HasMarker(text) /\ ~late /\ ~IsAlive) =>
                    (pc'["main"] = "idle" /\ res'.kind = "died")
              /\ (~HasMarker(text) /\ ~late /\ IsAlive) =>
                    pc'["main"] = "rd_wait"
       /\ MainLeaves("rd_wait") => pc'["main"] = "rd_poll"]_vars

\* a read has returned a match although its deadline had passed and the
\* session was dead
C13_Witness ==
    /\ res.op = "read" /\ res.kind = "matched" /\ res.late /\ res.dead
    /\ res.afterClose

\* C14 as stated: a read_until_ready call that has waited on the condition
\* and whose iteration finds the session dead and no marker in the buffer
\* ends with 'Subprocess died'.
C14_DeathEndsPendingRead ==
    [][(/\ MainLeaves("rd_poll") /\ pc'["main"] = "idle"
        /\ call.waits = 1 /\ ~call.dead /\ ~IsAlive
        /\ ~HasMarker(Sanitize(Bytes(buffer))))
       => res'.kind = "died"]_vars

\* C15 as stated: bytes leave the buffer only in the step in which
\* read_until_ready returns a match.
C15_OnlyMatchShrinksBuffer ==
    [][~IsPrefix(buffer, buffer') =>
          (MainLeaves("rd_poll") /\ res'.kind = "matched")]_vars

\* C15 as amended: bytes leave the buffer only in the step in which
\* read_until_ready returns a match and in restart()'s clear under the lock;
\* both leave the buffer empty.
C15_OnlyMatchOrRestartShrinksBuffer ==
    [][~IsPrefix(buffer, buffer') =>
          /\ buffer' = << >>
          /\ \/ MainLeaves("rd_poll") /\ res'.kind = "matched"
             \/ MainLeaves("rs_clear") /\ call.op = "restart"]_vars

\* a restart() has cleared a buffer that held bytes, and a read has
\* returned a match
C15_Witness ==
    /\ log.dropped /\ nstarts > 1
    /\ res.kind = "matched" /\ res.raw # << >>

\* the steps that run inside `with self._lock` or `with self._cond`: the
\* reader's append, an iteration of read_until_ready, restart()'s clear
UnderLock ==
    \/ \E g \in Gens : ReaderAppend(g)
    \/ RdPoll
    \/ RestartClear

\* C16 as stated: the buffer, the history and the running flag change only
\* in steps that hold the session lock.
C16_MutationsUnderLock ==
    [][(buffer' # buffer \/ history' # history \/ running' # running)
          => UnderLock]_vars

\* the reader loops that have been started and have not left their loop
ActiveReaders == { g \in Gens : reader[g].pc \in {"loop", "select", "read", "append"} }

\* C17 as stated: at most one reader loop is active at any moment.
C17_OneReaderLoop == Cardinality(ActiveReaders) <= 1

\* C18 as stated: close() never closes a descriptor that is no longer open,
\* and once a close() has returned, with no start() since it began, no
\* descriptor opened by a start() is open.
C18_DescriptorClosedOnce ==
    [][/\ \A t \in Threads :
             (pc[t] = "cl_closefd" /\ pc'[t] = "cl_none") => master_fd \in fdOpen
       /\ log'.closed => fdOpen' = {}]_vars

\* a close() has been called
CloseCalled == log.closed \/ \E t \in Threads : pc[t] \in ClosePcs

\* C19: when close() has been called and no start() follows, the reader
\* loop ends and the running flag is false from then on.
C19_ReaderStopsAfterClose ==
    CloseCalled ~> [](reader[1].pc = "done" /\ ~running)

\* the main thread's close() has returned on a session whose reader had
\* read output; the reader has ended and the flag is false
C19_Witness ==
    /\ log.closed /\ reader[1].pc = "done" /\ ~running
    /\ history # << >> /\ res.op = "close"

\* C20 as stated: once restart() has started the new session, the running
\* flag is cleared only by close() or by the exit of the new session's
\* reader loop.
C20_OnlyNewReaderClearsFlag ==
    [][(nstarts > 1 /\ reader_thread = nstarts /\ running /\ ~running')
          => \/ \E t \in Threads : CloseFlag(t)
             \/ ReaderExit(nstarts)]_vars

====
